---- MODULE Spec2Model ----
(***************************************************************************)
(* A model of finalproject.py, a Streamlit dashboard over a table of       *)
(* Airbnb listings: the filter function apply_filters, the aggregate       *)
(* queries of the Quick Stats section, and one top-to-bottom pass of the   *)
(* script (Quick Stats, sidebar widgets, four tabs).                       *)
(*                                                                         *)
(* A DataFrame is a sequence of rows; each row carries its index label     *)
(* (idx), which pandas keeps through boolean indexing.  Text is a sequence *)
(* of one-character strings.  A float is an exact fraction [num, den];     *)
(* den = 0 stands for NaN.                                                 *)
(***************************************************************************)
EXTENDS Integers, Sequences, FiniteSets, TLC

VARIABLES airbnb_data,        \* the module-level DataFrame (line 11)
          args,               \* arguments of the last direct apply_filters call
          result,             \* what that call returned (or that it raised)
          pc,                 \* position of the script pass
          widgets,            \* values read from the sidebar widgets (lines 75-80)
          neighborhood_data,  \* script variable of tabs[0] (line 89)
          filtered_listings,  \* outcome of the apply_filters call of tabs[2]
          map_data,           \* outcome of the apply_filters call of tabs[3]
          screen,             \* elements displayed, per section
          calls               \* chart/map renderers invoked: [fn, tab, rows]

vars == <<airbnb_data, args, result, pc, widgets, neighborhood_data,
          filtered_listings, map_data, screen, calls>>

----------------------------------------------------------------------------
(* Bounds of the model *)

MaxRows == 2
MaxSearchRows == 1
MaxNameLen == 2
MaxPatLen == 2

(* Program constants *)
DefaultMinAvail == 0
DefaultMaxAvail == 365

----------------------------------------------------------------------------
(* Values *)

None == "None"
All == "All"

\* the characters text is made of: a letter in both cases, and two
\* characters the regular-expression syntax gives a meaning to
Chars == {"w", "W", ".", "\\"}

Lower(c) == IF c = "W" THEN "w" ELSE c

IsWordChar(c) == c \in {"w", "W"}

Texts(n) == UNION {[1..k -> Chars] : k \in 0..n}

NA == [na |-> TRUE, s |-> <<>>]
Str(s) == [na |-> FALSE, s |-> s]

\* neighbourhoods and room types, each in alphabetical order
SortedNeighbourhoods == <<"Allston", "Back Bay">>
SortedRoomTypes == <<"Entire home/apt", "Private room">>

Range(s) == {s[i] : i \in DOMAIN s}

Neighbourhoods == Range(SortedNeighbourhoods)
RoomTypes == Range(SortedRoomTypes)

----------------------------------------------------------------------------
(* Floats as exact fractions *)

RECURSIVE GCD(_, _)
GCD(a, b) == IF b = 0 THEN a ELSE GCD(b, a % b)

NaN == [num |-> 0, den |-> 0]
Float(n, d) == IF d = 0 THEN NaN
               ELSE LET g == GCD(n, d) IN [num |-> n \div g, den |-> d \div g]
Zero == Float(0, 1)
IsNaN(x) == x.den = 0

\* comparisons with NaN are False
FloatLess(x, y) == ~IsNaN(x) /\ ~IsNaN(y) /\ x.num * y.den < y.num * x.den

----------------------------------------------------------------------------
(* pandas *)

RECURSIVE SumPrice(_)
SumPrice(df) == IF df = <<>> THEN 0 ELSE Head(df).price + SumPrice(Tail(df))

\* Series.mean(): NaN on an empty Series
mean_price(df) == Float(SumPrice(df), Len(df))

\* df[mask], mask a boolean Series over the rows of df
boolean_index_reversed(df, mask) ==
    LET F[i \in 0..Len(df)] ==
            IF i = 0 THEN <<>> ELSE IF mask[i] THEN <<df[i]>> \o F[i - 1] ELSE F[i - 1]
    IN  F[Len(df)]

boolean_index(df, mask) ==
    LET F[i \in 0..Len(df)] ==
            IF i = 0 THEN <<>> ELSE IF mask[i] THEN Append(F[i - 1], df[i]) ELSE F[i - 1]
    IN  F[Len(df)]

\* re.compile(pat, re.IGNORECASE): the tokens of the pattern, or an error
RECURSIVE re_compile(_)
re_compile(pat) ==
    IF pat = <<>> THEN [ok |-> TRUE, tokens |-> <<>>]
    ELSE IF Head(pat) = "\\"
    THEN IF Len(pat) = 1
         THEN [ok |-> FALSE, tokens |-> <<>>]   \* bad escape (end of pattern)
         ELSE LET c == pat[2]
                  rest == re_compile(SubSeq(pat, 3, Len(pat)))
                  tok == CASE c = "w" -> [kind |-> "word", c |-> c]
                           [] c = "W" -> [kind |-> "nonword", c |-> c]
                           [] OTHER -> [kind |-> "literal", c |-> c]
              IN  [ok |-> rest.ok, tokens |-> <<tok>> \o rest.tokens]
    ELSE LET c == Head(pat)
             rest == re_compile(Tail(pat))
             tok == IF c = "." THEN [kind |-> "any", c |-> c]
                    ELSE [kind |-> "literal", c |-> c]
         IN  [ok |-> rest.ok, tokens |-> <<tok>> \o rest.tokens]

token_matches(tok, c) ==
    CASE tok.kind = "any" -> TRUE
      [] tok.kind = "word" -> IsWordChar(c)
      [] tok.kind = "nonword" -> ~IsWordChar(c)
      [] OTHER -> Lower(tok.c) = Lower(c)

\* pattern.search(s)
re_search(tokens, s) ==
    \E i \in 0..(Len(s) - Len(tokens)) :
        \A k \in 1..Len(tokens) : token_matches(tokens[k], s[i + k])

\* Series.str.contains(pat, case=False, na=False), one element
str_contains(name, tokens) == IF name.na THEN FALSE ELSE re_search(tokens, name.s)

\* the keys of a groupby, in order of first appearance (sort=False)
RECURSIVE appearance_order(_, _)
appearance_order(keys, seen) ==
    IF keys = <<>> THEN <<>>
    ELSE IF Head(keys) \in seen THEN appearance_order(Tail(keys), seen)
    ELSE <<Head(keys)>> \o appearance_order(Tail(keys), seen \cup {Head(keys)})

groupby_keys_unsorted(column, sorted) == appearance_order(column, {})

\* the keys of a groupby: those present in the column, sorted (sort=True)
groupby_keys(column, sorted) == SelectSeq(sorted, LAMBDA k : k \in Range(column))

\* df.groupby("neighbourhood")["price"].mean()
groupby_neighbourhood_mean(df) ==
    LET keys == groupby_keys([i \in DOMAIN df |-> df[i].neighbourhood], SortedNeighbourhoods)
    IN  [j \in DOMAIN keys |->
            [key |-> keys[j],
             price |-> mean_price(SelectSeq(df, LAMBDA row : row.neighbourhood = keys[j]))]]

\* df.groupby("room_type")["price"].mean()
groupby_room_type_mean(df) ==
    LET keys == groupby_keys([i \in DOMAIN df |-> df[i].room_type], SortedRoomTypes)
    IN  [j \in DOMAIN keys |->
            [key |-> keys[j],
             price |-> mean_price(SelectSeq(df, LAMBDA row : row.room_type = keys[j]))]]

\* Series.idxmax(): the label of the first occurrence of the maximum
idxmax(series) ==
    LET j == CHOOSE j \in DOMAIN series :
                /\ \A k \in DOMAIN series : ~FloatLess(series[j].price, series[k].price)
                /\ \A k \in DOMAIN series : k < j => FloatLess(series[k].price, series[j].price)
    IN  series[j].key

\* Series.idxmin(): the label of the first occurrence of the minimum
idxmin(series) ==
    LET j == CHOOSE j \in DOMAIN series :
                /\ \A k \in DOMAIN series : ~FloatLess(series[k].price, series[j].price)
                /\ \A k \in DOMAIN series : k < j => FloatLess(series[j].price, series[k].price)
    IN  series[j].key

SetMax(S) == CHOOSE x \in S : \A y \in S : y <= x
SetMin(S) == CHOOSE x \in S : \A y \in S : x <= y

----------------------------------------------------------------------------
(* apply_filters (lines 14-26) *)

row_mask_exclusive(row, min_price, max_price, min_avail, max_avail, min_reviews) ==
    /\ row.price >= min_price /\ row.price < max_price
    /\ row.availability_365 >= min_avail /\ row.availability_365 <= max_avail
    /\ row.number_of_reviews >= min_reviews

row_mask(row, min_price, max_price, min_avail, max_avail, min_reviews) ==
    /\ row.price >= min_price /\ row.price <= max_price
    /\ row.availability_365 >= min_avail /\ row.availability_365 <= max_avail
    /\ row.number_of_reviews >= min_reviews

filter_neighborhoods_unguarded(filtered, neighborhoods) ==
    boolean_index(filtered, [i \in DOMAIN filtered |-> filtered[i].neighbourhood \in neighborhoods])

filter_neighborhoods(filtered, neighborhoods) ==
    IF neighborhoods # {}
    THEN boolean_index(filtered, [i \in DOMAIN filtered |-> filtered[i].neighbourhood \in neighborhoods])
    ELSE filtered

filter_room_type(filtered, room_type) ==
    IF room_type \notin {None, ""}
    THEN boolean_index(filtered, [i \in DOMAIN filtered |-> filtered[i].room_type = room_type])
    ELSE filtered

\* the frame passed in, after the call: boolean indexing builds a new frame
source_after_filter_inplace(df, filtered) == filtered

source_after_filter(df, filtered) == df

average_price(filtered) == IF filtered # <<>> THEN mean_price(filtered) ELSE Zero

Raised(df) == [raised |-> TRUE, filtered |-> <<>>, avg_price |-> NaN,
               total_count |-> 0, df |-> df]

apply_filters(df, min_price, max_price, neighborhoods, room_type, min_avail, max_avail, min_reviews, search_text) ==
    LET f1 == boolean_index(df, [i \in DOMAIN df |->
                  row_mask(df[i], min_price, max_price, min_avail, max_avail, min_reviews)])
        f2 == filter_neighborhoods(f1, neighborhoods)
        f3 == filter_room_type(f2, room_type)
        re == re_compile(search_text)
    IN  IF search_text # <<>> /\ ~re.ok
        THEN Raised(df)
        ELSE LET f4 == IF search_text # <<>>
                       THEN boolean_index(f3, [i \in DOMAIN f3 |->
                                                  str_contains(f3[i].name, re.tokens)])
                       ELSE f3
             IN  [raised |-> FALSE, filtered |-> f4,
                  avg_price |-> average_price(f4),
                  total_count |-> Len(f4),
                  df |-> source_after_filter(df, f4)]

----------------------------------------------------------------------------
(* The listings the model draws its datasets from *)

Prices == {1, 2}
AvailValues == {DefaultMinAvail, DefaultMaxAvail}
ReviewCounts == {0, 1}

Profiles ==
    { [name |-> Str(<<"W", "w">>), neighbourhood |-> "Back Bay",
       room_type |-> "Entire home/apt", availability_365 |-> DefaultMaxAvail,
       number_of_reviews |-> 1],
      [name |-> NA, neighbourhood |-> "Allston",
       room_type |-> "Private room", availability_365 |-> 0,
       number_of_reviews |-> 0],
      [name |-> Str(<<".">>), neighbourhood |-> "Allston",
       room_type |-> "Entire home/apt", availability_365 |-> DefaultMaxAvail,
       number_of_reviews |-> 0] }

Listing(profile, price) ==
    [name |-> profile.name, neighbourhood |-> profile.neighbourhood,
     room_type |-> profile.room_type, price |-> price,
     availability_365 |-> profile.availability_365,
     number_of_reviews |-> profile.number_of_reviews]

Listings == {Listing(pr, p) : pr \in Profiles, p \in Prices}

NamedListings ==
    {Listing([name |-> n, neighbourhood |-> "Allston", room_type |-> "Private room",
              availability_365 |-> 0, number_of_reviews |-> 0], 1) :
        n \in {NA} \cup {Str(t) : t \in Texts(MaxNameLen)}}

\* pd.read_csv: the rows of the file under a RangeIndex (line 9)
read_csv(rows) ==
    [i \in 1..Len(rows) |->
        [idx |-> i, name |-> rows[i].name, neighbourhood |-> rows[i].neighbourhood,
         room_type |-> rows[i].room_type, price |-> rows[i].price,
         availability_365 |-> rows[i].availability_365,
         number_of_reviews |-> rows[i].number_of_reviews]]

Files(pool, n) == UNION {[1..k -> pool] : k \in 0..n}

NoArgs == [min_price |-> 0, max_price |-> 0, neighborhoods |-> {}, room_type |-> None,
           min_avail |-> DefaultMinAvail, max_avail |-> DefaultMaxAvail,
           min_reviews |-> 0, search_text |-> <<>>]

NoResult == [raised |-> FALSE, filtered |-> <<>>, avg_price |-> Zero,
             total_count |-> 0, df |-> <<>>]

NoWidgets == [chosen_neighborhoods |-> {}, chosen_room_type |-> All,
              price_range |-> <<0, 0>>, availability_range |-> <<0, 365>>,
              min_reviews |-> 0, search_name |-> <<>>]

Sections == {"quick_stats", "tab0", "tab1", "tab2", "tab3"}
BlankScreen == [s \in Sections |-> <<>>]

----------------------------------------------------------------------------
(* Direct calls of apply_filters *)

FilterSearchTexts == {<<>>, <<"w">>, <<"\\">>}

Call(mn, mx, nb, rt, ma, xa, mr, st) ==
    /\ pc = "idle"
    /\ args' = [min_price |-> mn, max_price |-> mx, neighborhoods |-> nb, room_type |-> rt,
                min_avail |-> ma, max_avail |-> xa, min_reviews |-> mr, search_text |-> st]
    /\ result' = apply_filters(airbnb_data, mn, mx, nb, rt, ma, xa, mr, st)
    /\ airbnb_data' = result'.df
    /\ pc' = "returned"
    /\ UNCHANGED <<widgets, neighborhood_data, filtered_listings, map_data, screen, calls>>

CallApplyFilters ==
    \E mn \in Prices, mx \in Prices, nb \in SUBSET Neighbourhoods,
       rt \in {None} \cup RoomTypes, ma \in AvailValues, xa \in AvailValues,
       mr \in ReviewCounts, st \in FilterSearchTexts :
        Call(mn, mx, nb, rt, ma, xa, mr, st)

CallSearch ==
    \E st \in Texts(MaxPatLen) :
        Call(1, 1, {}, None, DefaultMinAvail, DefaultMaxAvail, 0, st)

InitCall(pool, n) ==
    /\ airbnb_data \in {read_csv(f) : f \in Files(pool, n)}
    /\ args = NoArgs
    /\ result = NoResult
    /\ pc = "idle"
    /\ widgets = NoWidgets
    /\ neighborhood_data = <<>>
    /\ filtered_listings = NoResult
    /\ map_data = NoResult
    /\ screen = BlankScreen
    /\ calls = {}

InitFilter == InitCall(Listings, MaxRows)
InitSearch == InitCall(NamedListings, MaxSearchRows)

SpecFilter == InitFilter /\ [][CallApplyFilters]_vars
SpecSearch == InitSearch /\ [][CallSearch]_vars

----------------------------------------------------------------------------
(* What the claims about apply_filters speak of *)

Returned == pc = "returned"

InResult(row) == \E j \in DOMAIN result.filtered : result.filtered[j] = row

\* the constraints other than the text search, as the specification words them
Satisfies(row, a) ==
    /\ a.min_price <= row.price /\ row.price <= a.max_price
    /\ a.min_avail <= row.availability_365 /\ row.availability_365 <= a.max_avail
    /\ row.number_of_reviews >= a.min_reviews
    /\ (a.neighborhoods = {} \/ row.neighbourhood \in a.neighborhoods)
    /\ (a.room_type = None \/ row.room_type = a.room_type)

\* s contains t as a substring, letter case ignored
ContainsCI(s, t) ==
    \E i \in 0..(Len(s) - Len(t)) : \A k \in 1..Len(t) : Lower(s[i + k]) = Lower(t[k])

NameContains(row, t) == ~row.name.na /\ ContainsCI(row.name.s, t)

Matches(row, a) ==
    Satisfies(row, a) /\ (a.search_text = <<>> \/ NameContains(row, a.search_text))

Rows(df) == {df[i] : i \in DOMAIN df}

\* C1: without a text search, the rows returned are exactly the rows of the
\* Dataset that satisfy every active constraint (inclusive price and
\* availability bounds, a lower bound on reviews, neighbourhood membership
\* and room type when given).
C1_ExactlyTheSatisfyingRows ==
    (Returned /\ args.search_text = <<>>) =>
        /\ ~result.raised
        /\ Rows(result.filtered) \subseteq Rows(airbnb_data)
        /\ \A i \in DOMAIN airbnb_data :
              InResult(airbnb_data[i]) <=> Satisfies(airbnb_data[i], args)

C1_Witness ==
    /\ Returned /\ args.search_text = <<>>
    /\ args.neighborhoods = {"Allston"} /\ args.room_type = "Private room"
    /\ args.min_price = 2 /\ args.max_price = 2
    /\ Len(airbnb_data) = 2 /\ Len(result.filtered) = 1
    /\ airbnb_data[1].neighbourhood = "Allston" /\ airbnb_data[1].price = 1

\* every constraint at its widest, over a Dataset that has a smallest and a
\* largest price
Widest(a, df) ==
    /\ df # <<>>
    /\ \A i \in DOMAIN df : a.min_price <= df[i].price /\ a.max_price >= df[i].price
    /\ a.min_avail = 0 /\ a.max_avail = 365 /\ a.min_reviews = 0
    /\ a.neighborhoods = {} /\ a.room_type = None /\ a.search_text = <<>>

\* C2: with every constraint at its widest apply_filters returns the whole
\* Dataset, its row count, and the mean price of the whole Dataset.
C2_WidestReturnsAll ==
    (Returned /\ Widest(args, airbnb_data)) =>
        /\ ~result.raised
        /\ result.filtered = airbnb_data
        /\ result.total_count = Len(airbnb_data)
        /\ result.avg_price.den # 0
        /\ result.avg_price.num * Len(airbnb_data)
              = SumPrice(airbnb_data) * result.avg_price.den

C2_Witness ==
    /\ Returned /\ Widest(args, airbnb_data)
    /\ Len(airbnb_data) = 2
    /\ airbnb_data[1].price # airbnb_data[2].price
    /\ airbnb_data[1].neighbourhood # airbnb_data[2].neighbourhood
    /\ result.avg_price = [num |-> 3, den |-> 2]

\* C3 (as claimed): whenever no row of the Dataset matches the criteria,
\* apply_filters returns normally with no rows, average price 0 and count 0.
C3_EmptyResultIsZero ==
    (Returned /\ \A i \in DOMAIN airbnb_data : ~Matches(airbnb_data[i], args)) =>
        /\ ~result.raised
        /\ result.filtered = <<>>
        /\ result.avg_price = Zero
        /\ result.total_count = 0

\* C9: the rows returned keep the order they have in the Dataset, and none
\* is returned twice.
C9_OrderPreserved ==
    (Returned /\ ~result.raised) =>
        /\ \A j \in DOMAIN result.filtered :
              /\ result.filtered[j].idx \in DOMAIN airbnb_data
              /\ airbnb_data[result.filtered[j].idx] = result.filtered[j]
        /\ \A j, k \in DOMAIN result.filtered :
              j < k => result.filtered[j].idx < result.filtered[k].idx

C9_Witness ==
    /\ Returned /\ ~result.raised
    /\ args.search_text # <<>> /\ args.room_type # None
    /\ Len(result.filtered) = 2
    /\ result.filtered[1].price > result.filtered[2].price

\* C5 (as claimed): with a search text, the rows kept are exactly the rows
\* passing the other constraints whose name is present and contains the text
\* as a case-insensitive substring, and the call raises no error; without
\* one, a missing name excludes no row.
C5_SubstringSearch ==
    Returned =>
        /\ ~result.raised
        /\ \A i \in DOMAIN airbnb_data :
              InResult(airbnb_data[i]) <=> Matches(airbnb_data[i], args)

SameLetters(s, t) ==
    Len(s) = Len(t) /\ \A k \in 1..Len(s) : Lower(s[k]) = Lower(t[k])

Outcome(r) == <<r.raised, r.filtered, r.avg_price, r.total_count>>

\* C6 (as claimed): two criteria that differ only in the letter case of the
\* search text give the same rows, count and average price.
C6_CaseInsensitive ==
    Returned =>
        \A t \in Texts(MaxPatLen) :
            SameLetters(t, args.search_text) =>
                Outcome(apply_filters(airbnb_data, args.min_price, args.max_price,
                                      args.neighborhoods, args.room_type, args.min_avail,
                                      args.max_avail, args.min_reviews, t))
                    = Outcome(result)

----------------------------------------------------------------------------
(* One pass of the script (lines 61-167).  A pass runs top to bottom; an   *)
(* exception no handler catches ends it.  The chart and map renderers are  *)
(* external: each call either returns or raises (fault).                   *)

Elem(kind, label, value) == [kind |-> kind, label |-> label, value |-> value]
Has(section, kind) == \E i \in DOMAIN screen[section] : screen[section][i].kind = kind
Show(section, elems) == screen' = [screen EXCEPT ![section] = @ \o elems]

unique_neighbourhoods(df) == {df[i].neighbourhood : i \in DOMAIN df}
unique_room_types(df) == {df[i].room_type : i \in DOMAIN df}

DashboardSearchTexts == {<<>>, <<"w">>, <<"\\">>}

\* lines 61-71: no handler around the aggregates
QuickStats ==
    /\ pc = "quick_stats"
    /\ IF airbnb_data = <<>>
       THEN \* idxmax of an empty Series raises ValueError
            /\ Show("quick_stats", <<Elem("markdown", "Quick Stats", 0),
                                     Elem("exception", "ValueError", 0)>>)
            /\ pc' = "halted"
       ELSE LET total_listings == Len(airbnb_data)
                avg_price == mean_price(airbnb_data)
                by_neighbourhood == groupby_neighbourhood_mean(airbnb_data)
                priciest_neighborhood == idxmax(by_neighbourhood)
                cheapest_neighborhood == idxmin(by_neighbourhood)
            IN  /\ Show("quick_stats",
                        <<Elem("markdown", "Quick Stats", 0),
                          Elem("metric", "Total Listings", total_listings),
                          Elem("metric", "Overall Average Price", avg_price),
                          Elem("metric", "Most Expensive Neighborhood", priciest_neighborhood),
                          Elem("metric", "Most Affordable Neighborhood", cheapest_neighborhood)>>)
                /\ pc' = "sidebar"
    /\ UNCHANGED <<airbnb_data, args, result, widgets, neighborhood_data,
                   filtered_listings, map_data, calls>>

\* lines 74-80: the values the widgets hold in this pass, each within the
\* range its widget was given
Sidebar ==
    /\ pc = "sidebar"
    /\ LET prices == {airbnb_data[i].price : i \in DOMAIN airbnb_data}
           reviews == {airbnb_data[i].number_of_reviews : i \in DOMAIN airbnb_data}
       IN  \E nb \in SUBSET unique_neighbourhoods(airbnb_data),
              rt \in {All} \cup unique_room_types(airbnb_data),
              lo \in SetMin(prices)..SetMax(prices), hi \in SetMin(prices)..SetMax(prices),
              av \in {<<DefaultMinAvail, DefaultMaxAvail>>, <<DefaultMinAvail, DefaultMinAvail>>},
              mr \in {0, SetMax(reviews)},
              st \in DashboardSearchTexts :
               /\ lo <= hi
               /\ widgets' = [chosen_neighborhoods |-> nb, chosen_room_type |-> rt,
                              price_range |-> <<lo, hi>>, availability_range |-> av,
                              min_reviews |-> mr, search_name |-> st]
    /\ pc' = "tab0"
    /\ UNCHANGED <<airbnb_data, args, result, neighborhood_data, filtered_listings,
                   map_data, screen, calls>>

Invoke(fn, tab, table) == calls' = calls \cup {[fn |-> fn, tab |-> tab, rows |-> Len(table)]}

\* line 90
neighborhood_data_empty(data) == data = <<>>

\* lines 86-96: no handler around the chart
Tab0Step(fault) ==
    /\ pc = "tab0"
    /\ IF widgets.chosen_neighborhoods # {}
       THEN LET data == groupby_neighbourhood_mean(
                            boolean_index(airbnb_data, [i \in DOMAIN airbnb_data |->
                                airbnb_data[i].neighbourhood \in widgets.chosen_neighborhoods]))
            IN  /\ neighborhood_data' = data
                /\ IF neighborhood_data_empty(data)
                   THEN /\ Show("tab0", <<Elem("header", "Neighborhood Price Averages", 0),
                                          Elem("warning", "No data matches your criteria.", 0)>>)
                        /\ pc' = "tab1"
                        /\ UNCHANGED calls
                   ELSE /\ Invoke("create_bar_chart", "tab0", data)
                        /\ IF fault
                           THEN /\ Show("tab0", <<Elem("header", "Neighborhood Price Averages", 0),
                                                  Elem("exception", "create_bar_chart", 0)>>)
                                /\ pc' = "halted"
                           ELSE /\ Show("tab0", <<Elem("header", "Neighborhood Price Averages", 0),
                                                  Elem("pyplot", "Average Price by Neighborhood", 0)>>)
                                /\ pc' = "tab1"
       ELSE /\ Show("tab0", <<Elem("header", "Neighborhood Price Averages", 0),
                              Elem("warning", "Please select at least one neighborhood.", 0)>>)
            /\ pc' = "tab1"
            /\ UNCHANGED <<neighborhood_data, calls>>
    /\ UNCHANGED <<airbnb_data, args, result, widgets, filtered_listings, map_data>>

Tab0 == \E fault \in BOOLEAN : Tab0Step(fault)

\* lines 99-108
Tab1Step(fault) ==
    /\ pc = "tab1"
    /\ LET room_data == IF widgets.chosen_room_type = All THEN airbnb_data
                        ELSE boolean_index(airbnb_data, [i \in DOMAIN airbnb_data |->
                                 airbnb_data[i].room_type = widgets.chosen_room_type])
           room_avg == groupby_room_type_mean(room_data)
       IN  /\ Invoke("create_bar_chart", "tab1", room_avg)
           /\ IF fault
              THEN Show("tab1", <<Elem("header", "Room Type Price Averages", 0),
                                  Elem("subheader", "Prices by Room Type", 0),
                                  Elem("error", "Error generating room type data", 0)>>)
              ELSE Show("tab1", <<Elem("header", "Room Type Price Averages", 0),
                                  Elem("subheader", "Prices by Room Type", 0),
                                  Elem("pyplot", "Room Type Prices", 0)>>)
    /\ pc' = "tab2"
    /\ UNCHANGED <<airbnb_data, args, result, widgets, neighborhood_data,
                   filtered_listings, map_data>>

Tab1 == \E fault \in BOOLEAN : Tab1Step(fault)

\* the call both tabs make (lines 114-117, 141-143)
filter_by_widgets(df, w) ==
    apply_filters(df, w.price_range[1], w.price_range[2], w.chosen_neighborhoods,
                  IF w.chosen_room_type = All THEN None ELSE w.chosen_room_type,
                  w.availability_range[1], w.availability_range[2], w.min_reviews,
                  w.search_name)

filtered_listings_empty_unchecked(r) == FALSE

\* line 118
filtered_listings_empty(r) == r.filtered = <<>>

\* line 144
map_data_empty(r) == r.filtered = <<>>

\* lines 111-135
Tab2Step(fault) ==
    /\ pc = "tab2"
    /\ LET r == filter_by_widgets(airbnb_data, widgets)
           head == <<Elem("header", "Find Listings Below Price", 0)>>
       IN  /\ filtered_listings' = r
           /\ airbnb_data' = r.df
           /\ IF r.raised
              THEN /\ Show("tab2", head \o <<Elem("error", "Error filtering data", 0)>>)
                   /\ UNCHANGED calls
              ELSE IF filtered_listings_empty(r)
              THEN /\ Show("tab2", head \o <<Elem("warning", "No results match your filters.", 0)>>)
                   /\ UNCHANGED calls
              ELSE LET body == head \o
                               <<Elem("write", "Filtered Listings:", 0),
                                 Elem("dataframe", "filtered_listings", Len(r.filtered)),
                                 Elem("write", "Total", r.total_count),
                                 Elem("write", "Median Price", 0),
                                 Elem("write", "Price Std Dev", 0),
                                 Elem("write", "25th Percentile", 0),
                                 Elem("write", "75th Percentile", 0)>>
                   IN  /\ Invoke("create_histogram", "tab2", r.filtered)
                       /\ IF fault
                          THEN Show("tab2", body \o <<Elem("error", "Error filtering data", 0)>>)
                          ELSE Show("tab2", body \o <<Elem("pyplot", "Price Distribution", 0)>>)
    /\ pc' = "tab3"
    /\ UNCHANGED <<args, result, widgets, neighborhood_data, map_data>>

Tab2 == \E fault \in BOOLEAN : Tab2Step(fault)

\* lines 138-167
Tab3Step(fault) ==
    /\ pc = "tab3"
    /\ LET r == filter_by_widgets(airbnb_data, widgets)
           head == <<Elem("header", "Airbnb Map View", 0)>>
       IN  /\ map_data' = r
           /\ airbnb_data' = r.df
           /\ IF r.raised
              THEN /\ Show("tab3", head \o <<Elem("error", "Error generating map", 0)>>)
                   /\ UNCHANGED calls
              ELSE IF map_data_empty(r)
              THEN /\ Show("tab3", head \o <<Elem("warning", "No data available for map view.", 0)>>)
                   /\ UNCHANGED calls
              ELSE LET body == head \o <<Elem("subheader", "Filtered Airbnb Locations", 0)>>
                   IN  /\ Invoke("pydeck_chart", "tab3", r.filtered)
                       /\ IF fault
                          THEN Show("tab3", body \o <<Elem("error", "Error generating map", 0)>>)
                          ELSE Show("tab3", body \o <<Elem("pydeck_chart", "ScatterplotLayer",
                                                          Len(r.filtered))>>)
    /\ pc' = "done"
    /\ UNCHANGED <<args, result, widgets, neighborhood_data, filtered_listings>>

Tab3 == \E fault \in BOOLEAN : Tab3Step(fault)

\* a widget change (or a manual rerun) starts the next pass from the top
Rerun ==
    /\ pc \in {"done", "halted"}
    /\ pc' = "quick_stats"
    /\ widgets' = NoWidgets
    /\ neighborhood_data' = <<>>
    /\ filtered_listings' = NoResult
    /\ map_data' = NoResult
    /\ screen' = BlankScreen
    /\ calls' = {}
    /\ UNCHANGED <<airbnb_data, args, result>>

Init ==
    /\ airbnb_data \in {read_csv(f) : f \in Files(Listings, MaxRows)}
    /\ args = NoArgs
    /\ result = NoResult
    /\ pc = "quick_stats"
    /\ widgets = NoWidgets
    /\ neighborhood_data = <<>>
    /\ filtered_listings = NoResult
    /\ map_data = NoResult
    /\ screen = BlankScreen
    /\ calls = {}

Next == QuickStats \/ Sidebar \/ Tab0 \/ Tab1 \/ Tab2 \/ Tab3 \/ Rerun

Spec == Init /\ [][Next]_vars

----------------------------------------------------------------------------
(* What the claims about a pass speak of *)

PassOver == pc \in {"done", "halted"}
After(section) ==
    CASE section = "quick_stats" -> pc \in {"sidebar", "tab0", "tab1", "tab2", "tab3", "done"}
      [] section = "tab0" -> pc \in {"tab1", "tab2", "tab3", "done"}
      [] section = "tab1" -> pc \in {"tab2", "tab3", "done"}
      [] section = "tab2" -> pc \in {"tab3", "done"}
      [] section = "tab3" -> pc = "done"

Called(fn, tab) == \E c \in calls : c.fn = fn /\ c.tab = tab

\* C4 (as claimed): a fault in one section is caught there and shown as a
\* message, and every other section of the pass is still rendered: when the
\* pass is over every section shows something and none shows an uncaught
\* exception.
C4_SectionsFailIndependently ==
    PassOver => \A s \in Sections : screen[s] # <<>> /\ ~Has(s, "exception")

Metric(label) ==
    LET i == CHOOSE i \in DOMAIN screen["quick_stats"] :
                 screen["quick_stats"][i].label = label
    IN  screen["quick_stats"][i].value

PriceSum(n) == SumPrice(SelectSeq(airbnb_data, LAMBDA row : row.neighbourhood = n))
Count(n) == Cardinality({i \in DOMAIN airbnb_data : airbnb_data[i].neighbourhood = n})
Present == {n \in Neighbourhoods : Count(n) > 0}
\* mean(m) <= mean(n), by cross-multiplication
MeanLeq(m, n) == PriceSum(m) * Count(n) <= PriceSum(n) * Count(m)
Rank(n) == CHOOSE j \in DOMAIN SortedNeighbourhoods : SortedNeighbourhoods[j] = n

\* C7: Quick Stats reports the neighbourhood of maximum mean price as most
\* expensive and that of minimum mean price as most affordable; among
\* neighbourhoods tied on the extreme mean, the alphabetically first.
C7_ExtremeNeighbourhoods ==
    After("quick_stats") =>
        LET hi == Metric("Most Expensive Neighborhood")
            lo == Metric("Most Affordable Neighborhood")
        IN  /\ hi \in Present /\ lo \in Present
            /\ \A n \in Present : MeanLeq(n, hi) /\ MeanLeq(lo, n)
            /\ \A n \in Present : MeanLeq(hi, n) => Rank(hi) <= Rank(n)
            /\ \A n \in Present : MeanLeq(n, lo) => Rank(lo) <= Rank(n)

C7_Witness ==
    /\ After("quick_stats")
    /\ Len(airbnb_data) = 2
    /\ airbnb_data[1].neighbourhood = "Back Bay" /\ airbnb_data[2].neighbourhood = "Allston"
    /\ airbnb_data[1].price = airbnb_data[2].price
    /\ Metric("Most Expensive Neighborhood") = "Allston"
    /\ Metric("Most Affordable Neighborhood") = "Allston"

\* C8: an empty result never reaches a renderer: the histogram builder and
\* the data table only see a non-empty Price Filter result, the map a
\* non-empty Map View result, the neighbourhood bar chart a non-empty
\* aggregated table; in each empty case a warning is displayed instead.
C8_EmptyNeverRendered ==
    /\ \A c \in calls : c.tab \in {"tab0", "tab2", "tab3"} => c.rows > 0
    /\ (Has("tab2", "dataframe") \/ Called("create_histogram", "tab2"))
          => filtered_listings.filtered # <<>>
    /\ (Has("tab3", "pydeck_chart") \/ Called("pydeck_chart", "tab3"))
          => map_data.filtered # <<>>
    /\ Called("create_bar_chart", "tab0") => neighborhood_data # <<>>
    /\ (After("tab2") /\ ~filtered_listings.raised /\ filtered_listings.filtered = <<>>)
          => Has("tab2", "warning")
    /\ (After("tab3") /\ ~map_data.raised /\ map_data.filtered = <<>>)
          => Has("tab3", "warning")
    /\ (After("tab0") /\ neighborhood_data = <<>>) => Has("tab0", "warning")

C8_Witness ==
    /\ pc = "done"
    /\ ~filtered_listings.raised /\ filtered_listings.filtered = <<>>
    /\ ~map_data.raised /\ map_data.filtered = <<>>
    /\ Has("tab2", "warning") /\ Has("tab3", "warning")
    /\ Called("create_bar_chart", "tab0") /\ Has("tab0", "pyplot")
    /\ ~Called("create_histogram", "tab2") /\ ~Called("pydeck_chart", "tab3")

\* C10: no step of any pass changes the Dataset: its rows, their values and
\* their order stay as loaded.
C10_DatasetNeverMutated == [][airbnb_data' = airbnb_data]_vars

C10_Witness ==
    /\ pc = "done"
    /\ Len(airbnb_data) = 2
    /\ Len(filtered_listings.filtered) = 1 /\ Len(map_data.filtered) = 1
    /\ Called("create_histogram", "tab2") /\ Called("pydeck_chart", "tab3")

====
